---- MODULE Spec2Model ----
(***************************************************************************)
(* Damastes (src/src/damastes/shoot.py): the natural comparator, the tree  *)
(* walker and the album orchestrator, as a state machine.                  *)
(*                                                                         *)
(* A string is a sequence of code points (48..57 are the digits '0'..'9',  *)
(* 46 is '.', 97.. are 'a'..).  A path is a sequence of strings, one per   *)
(* path segment.                                                           *)
(***************************************************************************)
EXTENDS Integers, Sequences, FiniteSets, TLC

(***************************************************************************)
(* Bounds of the comparator specification.                                 *)
(***************************************************************************)
MaxStrLen == 3
MaxThirdLen == 1

\* "0", "1", "a": enough for digit runs, leading zeros and digit-free text.
Alphabet == {48, 49, 97}

RECURSIVE StringsUpTo(_)
StringsUpTo(n) ==
    IF n = 0 THEN {<<>>}
    ELSE LET shorter == StringsUpTo(n - 1)
         IN  shorter \cup {Append(s, c) : s \in shorter, c \in Alphabet}

CmpStrings == StringsUpTo(MaxStrLen)
ThirdStrings == StringsUpTo(MaxThirdLen)

(***************************************************************************)
(* The natural comparator.                                                 *)
(***************************************************************************)
IsDigit(ch) == ch \in 48..57

\* Mutant: every digit taken as a number of its own.
RECURSIVE DigitRunsSingle(_, _, _, _)
DigitRunsSingle(s, i, inrun, acc) ==
    IF i > Len(s) THEN acc
    ELSE IF IsDigit(s[i])
         THEN DigitRunsSingle(s, i + 1, TRUE, Append(acc, s[i] - 48))
         ELSE DigitRunsSingle(s, i + 1, FALSE, acc)

\* re.compile(r"\d+").findall: the maximal digit runs, left to right, each
\* converted by int() (so leading zeros vanish).
RECURSIVE DigitRuns(_, _, _, _)
DigitRuns(s, i, inrun, acc) ==
    IF i > Len(s) THEN acc
    ELSE IF IsDigit(s[i])
         THEN IF inrun
              THEN DigitRuns(s, i + 1, TRUE,
                             [acc EXCEPT ![Len(acc)] = @ * 10 + (s[i] - 48)])
              ELSE DigitRuns(s, i + 1, TRUE, Append(acc, s[i] - 48))
         ELSE DigitRuns(s, i + 1, FALSE, acc)

str_strip_numbers(str_alphanum) == DigitRuns(str_alphanum, 1, FALSE, <<>>)

\* Python's < on two strings or two lists of integers: the first differing
\* element decides, a proper prefix is less.
RECURSIVE SeqLess(_, _)
SeqLess(x, y) ==
    IF y = <<>> THEN FALSE
    ELSE IF x = <<>> THEN TRUE
    ELSE IF x[1] < y[1] THEN TRUE
    ELSE IF x[1] > y[1] THEN FALSE
    ELSE SeqLess(Tail(x), Tail(y))

strcmp_c(str_x, str_y) ==
    IF str_x = str_y THEN 0 ELSE IF SeqLess(str_x, str_y) THEN -1 ELSE 1

\* Mutant: the numeric branch taken as soon as one string has digits.
strcmp_naturally_either(str_x, str_y) ==
    LET num_x == str_strip_numbers(str_x)
        num_y == str_strip_numbers(str_y)
    IN  IF num_x # <<>> \/ num_y # <<>>
        THEN strcmp_c(num_x, num_y)
        ELSE strcmp_c(str_x, str_y)

\* Mutant: "not less" reported as GT, also for equal digit vectors.
strcmp_naturally_noeq(str_x, str_y) ==
    LET num_x == str_strip_numbers(str_x)
        num_y == str_strip_numbers(str_y)
    IN  IF num_x # <<>> /\ num_y # <<>>
        THEN (IF SeqLess(num_x, num_y) THEN -1 ELSE 1)
        ELSE strcmp_c(str_x, str_y)

strcmp_naturally(str_x, str_y) ==
    LET num_x == str_strip_numbers(str_x)
        num_y == str_strip_numbers(str_y)
    IN  IF num_x # <<>> /\ num_y # <<>>
        THEN strcmp_c(num_x, num_y)
        ELSE strcmp_c(str_x, str_y)

(***************************************************************************)
(* Strings, numbers and paths (str, str.zfill, pathlib.PurePath).          *)
(***************************************************************************)
\* The value of an option that was not given (Python's None); no string
\* holds the code point -1.
None == <<-1>>

\* Python truthiness of an optional string: None and "" are false.
Truthy(s) == s # None /\ s # <<>>

RECURSIVE IntToStr(_)
\* str(n) for an integer
IntToStr(n) ==
    IF n < 0 THEN <<45>> \o IntToStr(-n)
    ELSE IF n < 10 THEN <<48 + n>>
    ELSE Append(IntToStr(n \div 10), 48 + (n % 10))

RECURSIVE Zeros(_)
Zeros(n) == IF n <= 0 THEN <<>> ELSE <<48>> \o Zeros(n - 1)

\* Mutant: the padding is to two digits whatever the width asked for.
zfill_two(s, width) ==
    IF s # <<>> /\ s[1] \in {43, 45}
    THEN <<s[1]>> \o Zeros(2 - Len(s)) \o Tail(s)
    ELSE Zeros(2 - Len(s)) \o s

\* str.zfill(width): zeros go after a leading sign
zfill(s, width) ==
    IF s # <<>> /\ s[1] \in {43, 45}
    THEN <<s[1]>> \o Zeros(width - Len(s)) \o Tail(s)
    ELSE Zeros(width - Len(s)) \o s

RECURSIVE JoinWith(_, _)
\* sep.join(list of strings)
JoinWith(sep, ss) ==
    IF ss = <<>> THEN <<>>
    ELSE IF Len(ss) = 1 THEN ss[1]
    ELSE ss[1] \o sep \o JoinWith(sep, Tail(ss))

\* PurePath.name: the last segment
PathName(p) == IF p = <<>> THEN <<>> ELSE p[Len(p)]

\* PurePath.parent
PathParent(p) == IF p = <<>> THEN <<>> ELSE SubSeq(p, 1, Len(p) - 1)

\* path / segment; joining "" leaves the path as it is
PathJoin(p, seg) == IF seg = <<>> THEN p ELSE Append(p, seg)

\* PurePath.is_relative_to: a prefix test on the segments
IsRelativeTo(p, q) == Len(q) <= Len(p) /\ SubSeq(p, 1, Len(q)) = q

RECURSIVE RFindDot(_, _)
\* str.rfind("."), 1-based, 0 when there is none
RFindDot(name, i) ==
    IF i = 0 THEN 0 ELSE IF name[i] = 46 THEN i ELSE RFindDot(name, i - 1)

\* PurePath.suffix of a name: from the last dot on, when that dot is neither
\* the first nor the last character
Suffix(name) ==
    LET i == RFindDot(name, Len(name))
    IN  IF 1 < i /\ i < Len(name) THEN SubSeq(name, i, Len(name)) ELSE <<>>

\* PurePath.stem of a name
Stem(name) ==
    LET i == RFindDot(name, Len(name))
    IN  IF 1 < i /\ i < Len(name) THEN SubSeq(name, 1, i - 1) ELSE name

Reverse(a) == [i \in 1..Len(a) |-> a[Len(a) + 1 - i]]

\* All orders in which the operating system may list a set of names.
RECURSIVE Orders(_)
Orders(S) ==
    IF S = {} THEN {<<>>}
    ELSE UNION {{<<x>> \o o : o \in Orders(S \ {x})} : x \in S}

(***************************************************************************)
(* initials, on ASCII text.                                                *)
(***************************************************************************)
SEP == <<46>>
HYPH == <<45>>
COMMA == <<44>>

\* str.isupper, str.islower and str.upper of one ASCII character
IsUpper(ch) == ch \in 65..90
IsLower(ch) == ch \in 97..122
Upper(ch) == IF IsLower(ch) THEN ch - 32 ELSE ch

\* what \s matches
IsSpace(ch) == ch \in {9, 10, 11, 12, 13, 32}

RECURSIVE QuotedEnd(_, _)
\* RE_QUOTED_SUBSTRING after its opening quote: pairs of a backslash and
\* a character, and characters that are neither quote nor backslash, up to
\* the closing quote; 0 when there is no match
QuotedEnd(s, j) ==
    IF j > Len(s) THEN 0
    ELSE IF s[j] = 92
         THEN (IF j + 1 > Len(s) \/ s[j + 1] = 10 THEN 0 ELSE QuotedEnd(s, j + 2))
    ELSE IF s[j] = 34 THEN j
    ELSE QuotedEnd(s, j + 1)

\* Nothing is substituted
SubQuotedNone(s, i) == s

RECURSIVE SubQuoted(_, _)
\* RE_QUOTED_SUBSTRING.sub(" ", s), from position i on
SubQuoted(s, i) ==
    IF i > Len(s) THEN <<>>
    ELSE IF s[i] = 34 /\ QuotedEnd(s, i + 1) # 0
         THEN <<32>> \o SubQuoted(s, QuotedEnd(s, i + 1) + 1)
    ELSE <<s[i]>> \o SubQuoted(s, i + 1)

\* str.replace of one character by a string
RECURSIVE Replace(_, _, _)
Replace(s, ch, by) ==
    IF s = <<>> THEN <<>>
    ELSE (IF Head(s) = ch THEN by ELSE <<Head(s)>>) \o Replace(Tail(s), ch, by)

RECURSIVE Split(_, _)
\* str.split(ch): the pieces between the separators, empty ones included
Split(s, ch) ==
    IF \A i \in DOMAIN s : s[i] # ch THEN <<s>>
    ELSE LET i == CHOOSE k \in DOMAIN s :
                      s[k] = ch /\ \A j \in 1..(k - 1) : s[j] # ch
         IN  <<SubSeq(s, 1, i - 1)>> \o Split(SubSeq(s, i + 1, Len(s)), ch)

RECURSIVE Strip(_)
\* str.strip()
Strip(s) ==
    IF s = <<>> THEN s
    ELSE IF IsSpace(s[1]) THEN Strip(Tail(s))
    ELSE IF IsSpace(s[Len(s)]) THEN Strip(SubSeq(s, 1, Len(s) - 1))
    ELSE s

RECURSIVE SplitBySep(_, _)
\* RE_BY_SEP.split(s) without its empty pieces: the maximal runs of
\* characters that are neither white space nor the dot; cur is the run
\* being read
SplitBySep(s, cur) ==
    IF s = <<>> THEN (IF cur = <<>> THEN <<>> ELSE <<cur>>)
    ELSE IF IsSpace(Head(s)) \/ Head(s) = 46
         THEN (IF cur = <<>> THEN <<>> ELSE <<cur>>) \o SplitBySep(Tail(s), <<>>)
    ELSE SplitBySep(Tail(s), Append(cur, Head(s)))

\* "Sr" and "Jr", kept whole
KeptWhole == {<<83, 114>>, <<74, 114>>}

\* The particles (the ASCII ones): von, van, der, til, zu, zum, zur, af, of,
\* da, de, des, del, di, dos, du, la, le, haut, the
Particles ==
    {<<118, 111, 110>>, <<118, 97, 110>>, <<100, 101, 114>>, <<116, 105, 108>>,
     <<122, 117>>, <<122, 117, 109>>, <<122, 117, 114>>, <<97, 102>>,
     <<111, 102>>, <<100, 97>>, <<100, 101>>, <<100, 101, 115>>,
     <<100, 101, 108>>, <<100, 105>>, <<100, 111, 115>>, <<100, 117>>,
     <<108, 97>>, <<108, 101>>, <<104, 97, 117, 116>>, <<116, 104, 101>>}

\* form_initial of a name that is not empty
form_initial(name) ==
    LET cut == Split(name, 39)
    IN  IF Len(cut) > 1 /\ cut[2] # <<>>
        THEN (IF IsLower(cut[2][1]) /\ cut[1] # <<>>
              THEN <<Upper(cut[1][1])>>
              ELSE cut[1] \o <<39, cut[2][1]>>)
        ELSE IF Len(name) > 1 /\ name \in KeptWhole THEN name
        ELSE IF Len(name) > 1 /\ \E k \in 2..Len(name) : IsUpper(name[k])
        THEN SubSeq(name, 1, CHOOSE k \in 2..Len(name) :
                                 /\ IsUpper(name[k])
                                 /\ \A j \in 2..(k - 1) : ~IsUpper(name[j]))
        ELSE IF name \in Particles THEN <<name[1]>>
        ELSE <<Upper(name[1])>>

\* [f(x) for x in xs]
RECURSIVE MapInitial(_)
MapInitial(names) ==
    IF names = <<>> THEN <<>>
    ELSE <<form_initial(Head(names))>> \o MapInitial(Tail(names))

\* The initials of one barrel, joined by the dot
BarrelInitials(barrel) == JoinWith(SEP, MapInitial(SplitBySep(barrel, <<>>)))

RECURSIVE MapBarrels(_)
MapBarrels(barrels) ==
    IF barrels = <<>> THEN <<>>
    ELSE <<BarrelInitials(Head(barrels))>> \o MapBarrels(Tail(barrels))

\* Every barrel kept, also those holding no name
AuthorInitialsAll(author) ==
    JoinWith(HYPH, MapBarrels(Split(author, 45))) \o SEP

\* The initials of one author: its barrels that hold a name, joined by the
\* hyphen, and the trailing dot
AuthorInitials(author) ==
    JoinWith(HYPH,
             MapBarrels(SelectSeq(Split(author, 45),
                                  LAMBDA b : Strip(Replace(b, 46, <<>>)) # <<>>)))
    \o SEP

RECURSIVE MapAuthors(_)
MapAuthors(authors) ==
    IF authors = <<>> THEN <<>>
    ELSE <<AuthorInitials(Head(authors))>> \o MapAuthors(Tail(authors))

initials(authors) ==
    JoinWith(COMMA,
             MapAuthors(SelectSeq(
                 Split(Replace(SubQuoted(authors, 1), 34, <<32>>), 44),
                 LAMBDA a : Strip(Replace(Replace(a, 46, <<>>), 45, <<>>)) # <<>>)))

(***************************************************************************)
(* The state of one run.                                                   *)
(***************************************************************************)
VARIABLES
    ARGS,         \* _ARGS, the context parameters
    fs,           \* the file system: path -> node
    pc,           \* where _run is
    status,       \* the exit status, -1 while running
    FILES_TOTAL,  \* _FILES_TOTAL
    SHORT_LOG,    \* _SHORT_LOG
    console,      \* what _show and the interpreter have printed
    fcount,       \* the [counter, increment] cell shared by the walk
    stack,        \* the _dir_walk generator frames, innermost first
    entry,        \* the walk item being copied
    tmp,          \* the mkstemp file of copy_and_set_via_tmp, <<>> when none
    files_total,  \* the local counter of _album_copy
    emitted,      \* history: the items yielded so far
    created,      \* history: the destination files written so far
    fs0,          \* history: the file system before the run
    prev,         \* history: the direction and the items of the run before
    kwargs,       \* history: the options the first run was started with
    str_x, str_y, str_z,  \* inputs of the comparator
    ord,          \* results of the comparator
    call          \* a naming function called on its own: arguments, result

runVars == <<ARGS, fs, pc, status, FILES_TOTAL, SHORT_LOG, console, fcount,
             stack, entry, tmp, files_total, emitted, created, fs0, prev,
             kwargs>>
cmpVars == <<str_x, str_y, str_z, ord, call>>
vars == <<runVars, cmpVars>>

(***************************************************************************)
(* Comparisons of directory entries and sorted().                          *)
(***************************************************************************)
\* The arguments are Path(x) for a listed name x, so str(path) is the name.
_path_compare(path_x, path_y) ==
    IF ARGS.sort_lex
    THEN strcmp_c(path_x, path_y)
    ELSE strcmp_naturally(path_x, path_y)

\* Mutant: the whole name compared, extension included.
_file_compare_name(path_x, path_y) ==
    IF ARGS.sort_lex
    THEN strcmp_c(path_x, path_y)
    ELSE strcmp_naturally(path_x, path_y)

_file_compare(path_x, path_y) ==
    IF ARGS.sort_lex
    THEN strcmp_c(Stem(path_x), Stem(path_y))
    ELSE strcmp_naturally(Stem(path_x), Stem(path_y))

\* The comparison function given to functools.cmp_to_key for the
\* directories (kind "dirs") and for the files (kind "files").
SortCmp(kind, x, y) ==
    IF kind = "dirs"
    THEN (IF ARGS.reverse THEN _path_compare(y, x) ELSE _path_compare(x, y))
    ELSE (IF ARGS.reverse THEN _file_compare(y, x) ELSE _file_compare(x, y))

\* K(x) < K(y) of cmp_to_key, the only comparison list.sort makes
KeyLt(kind, x, y) == SortCmp(kind, x, y) < 0

\* list.sort of CPython for fewer than 64 elements: the leading run is
\* found (a strictly descending one is reversed), the rest is inserted by
\* binary insertion, to the right of equal elements.
RECURSIVE RunEnd(_, _, _, _)
RunEnd(kind, a, i, descending) ==
    IF i = Len(a) THEN i
    ELSE IF KeyLt(kind, a[i + 1], a[i]) = descending
         THEN RunEnd(kind, a, i + 1, descending)
         ELSE i

RECURSIVE Bisect(_, _, _, _, _)
Bisect(kind, a, pivot, l, r) ==
    IF l >= r THEN l
    ELSE LET p == l + ((r - l) \div 2)
         IN  IF KeyLt(kind, pivot, a[p])
             THEN Bisect(kind, a, pivot, l, p)
             ELSE Bisect(kind, a, pivot, p + 1, r)

RECURSIVE BinarySort(_, _, _)
\* a[1..k] is sorted; insert a[k+1], a[k+2], ...
BinarySort(kind, a, k) ==
    IF k >= Len(a) THEN a
    ELSE LET pivot == a[k + 1]
             l == Bisect(kind, a, pivot, 1, k + 1)
         IN  BinarySort(kind,
                        SubSeq(a, 1, l - 1) \o <<pivot>> \o SubSeq(a, l, k)
                            \o SubSeq(a, k + 2, Len(a)),
                        k + 1)

sorted(kind, a) ==
    IF Len(a) < 2 THEN a
    ELSE LET descending == KeyLt(kind, a[2], a[1])
             n == RunEnd(kind, a, 2, descending)
             b == IF descending
                  THEN Reverse(SubSeq(a, 1, n)) \o SubSeq(a, n + 1, Len(a))
                  ELSE a
         IN  BinarySort(kind, b, n)

(***************************************************************************)
(* The file system.                                                        *)
(***************************************************************************)
DirNode == [kind |-> "dir"]

\* A symbolic link to a directory: is_dir follows it, and what lies in the
\* directory is found below the path of the link.
LinkNode == [kind |-> "dir", link |-> TRUE]

NoTags == [tracknumber |-> <<>>, title |-> None, artist |-> None, album |-> None]

\* A file: whether the tag library recognises it, the source file its bytes
\* come from, and its tags.
FileNode(audio, origin, tags) ==
    [kind |-> "file", audio |-> audio, origin |-> origin, tags |-> tags]

Exists(p) == p \in DOMAIN fs
IsDir(p) == p \in DOMAIN fs /\ fs[p].kind = "dir"
IsFile(p) == p \in DOMAIN fs /\ fs[p].kind = "file"

\* str.upper and str.lstrip(".")
RECURSIVE UpperStr(_)
UpperStr(s) == IF s = <<>> THEN <<>> ELSE <<Upper(Head(s))>> \o UpperStr(Tail(s))

RECURSIVE LstripDots(_)
LstripDots(s) == IF s # <<>> /\ Head(s) = 46 THEN LstripDots(Tail(s)) ELSE s

\* fnmatch.fnmatch of a name against a pattern of characters, "*" and "?"
RECURSIVE fnmatch(_, _)
fnmatch(name, pat) ==
    IF pat = <<>> THEN name = <<>>
    ELSE IF Head(pat) = 42
         THEN fnmatch(name, Tail(pat))
              \/ (name # <<>> /\ fnmatch(Tail(name), pat))
    ELSE /\ name # <<>>
         /\ Head(pat) = 63 \/ Head(pat) = Head(name)
         /\ fnmatch(Tail(name), Tail(pat))

\* _mutagen_file(name) is not None: the file-type filter on the name, a
\* pattern or an extension, and then the tag library on the file
_mutagen_file(name, node) ==
    LET atp == ARGS.file_type
        ext == UpperStr(LstripDots(Suffix(PathName(name))))
    IN  IF Truthy(atp) /\ (IF \E k \in DOMAIN atp : atp[k] \in {42, 63, 91}
                           THEN ~fnmatch(PathName(name), atp)
                           ELSE ext # UpperStr(LstripDots(atp)))
        THEN FALSE
        ELSE node.audio

_is_audiofile(name) == IsFile(name) /\ _mutagen_file(name, fs[name])

\* os.listdir: the names directly under a directory
Children(dir) == {PathName(p) : p \in {q \in DOMAIN fs :
                                       Len(q) = Len(dir) + 1 /\ IsRelativeTo(q, dir)}}

\* os.walk from a directory visits every file under it, the directories
\* behind links left out
_audiofiles_count(directory) ==
    IF _is_audiofile(directory) THEN 1
    ELSE IF IsFile(directory) THEN 0
    ELSE Cardinality({p \in DOMAIN fs :
                         /\ IsRelativeTo(p, directory)
                         /\ _is_audiofile(p)
                         /\ \A k \in (Len(directory) + 1)..(Len(p) - 1) :
                                fs[SubSeq(p, 1, k)] # LinkNode})

\* shutil.rmtree
Rmtree(f, dir) == [p \in {q \in DOMAIN f : ~IsRelativeTo(q, dir)} |-> f[p]]

RECURSIVE Prefixes(_)
\* a path and all its ancestors
Prefixes(p) == IF p = <<>> THEN {<<>>} ELSE {p} \cup Prefixes(PathParent(p))

\* Path.mkdir(parents=True, exist_ok=True); plain Path.mkdir when the parent
\* exists and the directory does not
Mkdir(f, dir) ==
    [p \in DOMAIN f \cup Prefixes(dir) |-> IF p \in DOMAIN f THEN f[p] ELSE DirNode]

\* shutil.copy to a file path: the destination gets the bytes
WriteFile(f, p, node) == [q \in DOMAIN f \cup {p} |-> IF q = p THEN node ELSE f[q]]

(***************************************************************************)
(* Destination names.                                                      *)
(***************************************************************************)
_artist_part(prefix, suffix) ==
    IF Truthy(ARGS.artist) THEN prefix \o ARGS.artist \o suffix ELSE <<>>

\* " - "
Dash == <<32, 45, 32>>

\* Mutant: the name is never left bare.
_file_decorate_always(i, step_down, file) ==
    LET prefix ==
            zfill(IntToStr(i), Len(IntToStr(FILES_TOTAL)))
            \o (IF ARGS.prepend_subdir_name /\ ~ARGS.tree_dst
                   /\ Len(step_down) > 0
                THEN <<45, 91>> \o JoinWith(<<93, 91>>, step_down) \o <<93, 45>>
                ELSE <<45>>)
    IN  prefix \o (IF Truthy(ARGS.unified_name)
                   THEN ARGS.unified_name \o _artist_part(Dash, <<>>)
                        \o Suffix(file)
                   ELSE file)

\* Mutant: the strip flag alone leaves the name bare.
_file_decorate_strip(i, step_down, file) ==
    IF ARGS.strip_decorations THEN file
    ELSE _file_decorate_always(i, step_down, file)

\* Mutant: the name is always left bare.
_file_decorate_bare(i, step_down, file) == file

_file_decorate(i, step_down, file) ==
    IF ARGS.strip_decorations /\ ARGS.tree_dst THEN file
    ELSE LET prefix ==
                 zfill(IntToStr(i), Len(IntToStr(FILES_TOTAL)))
                 \o (IF ARGS.prepend_subdir_name /\ ~ARGS.tree_dst
                        /\ Len(step_down) > 0
                     THEN <<45, 91>> \o JoinWith(<<93, 91>>, step_down) \o <<93, 45>>
                     ELSE <<45>>)
         IN  prefix \o (IF Truthy(ARGS.unified_name)
                        THEN ARGS.unified_name \o _artist_part(Dash, <<>>)
                             \o Suffix(file)
                        ELSE file)

\* album_num is an integer, -1 when not given; 0 is false as well
_dst_calculate ==
    IF ARGS.drop_dst THEN <<>>
    ELSE (IF ARGS.album_num # -1 /\ ARGS.album_num # 0
          THEN zfill(IntToStr(ARGS.album_num), 2) \o <<45>>
          ELSE <<>>)
         \o (IF Truthy(ARGS.unified_name)
             THEN _artist_part(<<>>, Dash) \o ARGS.unified_name
             ELSE IF IsFile(ARGS.src) THEN Stem(PathName(ARGS.src))
             ELSE PathName(ARGS.src))

\* The counter cell _album hands to _dir_walk.  Mutant: reverse numbering
\* that starts one short.
InitialFcountShort ==
    IF ARGS.reverse THEN <<FILES_TOTAL - 1, -1>> ELSE <<1, 1>>

InitialFcount ==
    IF ARGS.reverse THEN <<FILES_TOTAL, -1>> ELSE <<1, 1>>

\* file_copy: the source path, the destination directory and the
\* destination path of a walk item <<i, step_down, src_file>>
EntrySrc(e) == Append(ARGS.src \o e[2], e[3])

\* Mutant: only the innermost subdirectory is kept in tree layout.
EntryDstPathLast(e) ==
    IF ARGS.tree_dst /\ e[2] # <<>>
    THEN Append(ARGS.dst_dir, e[2][Len(e[2])])
    ELSE ARGS.dst_dir

EntryDstPath(e) == IF ARGS.tree_dst THEN ARGS.dst_dir \o e[2] ELSE ARGS.dst_dir
EntryDst(e) == Append(EntryDstPath(e), _file_decorate(e[1], e[2], e[3]))

\* make_title in set_tags, for the file copied from source
make_title(i, source, tagging) ==
    IF ARGS.file_title_num THEN IntToStr(i) \o <<62>> \o Stem(PathName(source))
    ELSE IF ARGS.file_title THEN Stem(PathName(source))
    ELSE IntToStr(i) \o <<32>> \o tagging

\* artist_initials of _album_copy
artist_initials == IF Truthy(ARGS.artist) THEN initials(ARGS.artist) ELSE <<>>

\* The temporary file of mkstemp(suffix=src.suffix): in the directory of
\* temporary files, "tmp", random characters ("_" stands for them) and the
\* suffix
TmpPath(src) == <<<<116, 109, 112>>, <<116, 109, 112, 95>> \o Suffix(PathName(src))>>

\* set_tags on the file at a path: nothing when _mutagen_file does not
\* give the file
set_tags(i, source, path, node) ==
    IF ~_mutagen_file(path, node) THEN node
    ELSE [node EXCEPT !.tags =
            [tracknumber |-> IF ARGS.drop_tracknumber THEN @.tracknumber
                             ELSE IntToStr(i) \o <<47>> \o IntToStr(FILES_TOTAL),
             title |-> IF Truthy(ARGS.artist) /\ Truthy(ARGS.album)
                       THEN make_title(i, source,
                                       artist_initials \o Dash \o ARGS.album)
                       ELSE IF Truthy(ARGS.artist)
                       THEN make_title(i, source, ARGS.artist)
                       ELSE IF Truthy(ARGS.album)
                       THEN make_title(i, source, ARGS.album)
                       ELSE @.title,
             artist |-> IF Truthy(ARGS.artist) THEN ARGS.artist ELSE @.artist,
             album |-> IF Truthy(ARGS.album) THEN ARGS.album ELSE @.album]]

(***************************************************************************)
(* _run, up to the call of _album_copy.                                    *)
(***************************************************************************)
\* sys.exit(1) after a message
Exit1(msgs) ==
    /\ pc' = "exit"
    /\ status' = 1
    /\ console' = console \o msgs

\* An exception nothing catches: the interpreter prints the traceback and
\* the process ends with status 1.
Crash == Exit1(<<"Traceback">>)

\* Mutant: only a destination strictly below the source is refused.
DstInsideSrcStrict(dst_dir) ==
    /\ ~ARGS.count
    /\ ~IsFile(ARGS.src)
    /\ IsRelativeTo(dst_dir, ARGS.src)
    /\ dst_dir # ARGS.src

\* The guard of _run against a destination inside the source.
DstInsideSrc(dst_dir) ==
    /\ ~ARGS.count
    /\ ~IsFile(ARGS.src)
    /\ IsRelativeTo(dst_dir, ARGS.src)

Run ==
    /\ pc = "run"
    /\ LET dst_dir == PathJoin(ARGS.dst_dir, _dst_calculate)
           nested == DstInsideSrc(dst_dir)
       IN  IF ~IsDir(ARGS.src) /\ ~IsFile(ARGS.src)
           THEN Exit1(<<"Source directory is not there">>)
                /\ UNCHANGED <<ARGS, SHORT_LOG>>
           ELSE IF ~IsDir(ARGS.dst_dir)
           THEN Exit1(<<"Target directory is not there">>)
                /\ UNCHANGED <<ARGS, SHORT_LOG>>
           ELSE IF nested /\ ~ARGS.dry_run
           THEN Exit1(<<"Target directory", "is inside source", "No go.">>)
                /\ ARGS' = [ARGS EXCEPT !.dst_dir = dst_dir]
                /\ UNCHANGED SHORT_LOG
           ELSE /\ ARGS' = [ARGS EXCEPT
                              !.dst_dir = dst_dir,
                              !.album = IF Truthy(ARGS.unified_name) /\ @ = None
                                        THEN ARGS.unified_name ELSE @]
                /\ SHORT_LOG' = IF nested
                                THEN <<"Target directory", "is inside source",
                                       "It won't run.">>
                                ELSE <<>>
                /\ pc' = "count"
                /\ UNCHANGED <<status, console>>
    /\ UNCHANGED <<fs, FILES_TOTAL, fcount, stack, entry, tmp, files_total,
                   emitted, created, fs0, prev, kwargs,
                   cmpVars>>

Count ==
    /\ pc = "count"
    /\ FILES_TOTAL' = _audiofiles_count(ARGS.src)
    /\ IF ARGS.count
       THEN /\ console' = Append(console, "Valid: file(s)")
            /\ pc' = "epilogue"
       ELSE /\ pc' = "album"
            /\ UNCHANGED console
    /\ UNCHANGED <<ARGS, fs, status, SHORT_LOG, fcount, stack, entry, tmp,
                   files_total, emitted, created, fs0, prev, kwargs,
                   cmpVars>>

(***************************************************************************)
(* _album: the checks, the destination directory, the generator.           *)
(***************************************************************************)
\* A _dir_walk generator that has not run yet.
CallFrame(src, step_down) ==
    [src |-> src, step_down |-> step_down, dirs |-> <<>>, files |-> <<>>,
     todo |-> <<>>, at |-> "call"]

\* _album makes the destination directory unless it is dropped or the run
\* is a dry one.
MakesDst == ~ARGS.drop_dst /\ ~ARGS.dry_run

\* Mutant: the overwrite flag read the wrong way round.
DstBlockedInverted == MakesDst /\ Exists(ARGS.dst_dir) /\ ARGS.overwrite

\* The destination directory exists and may not be overwritten.
DstBlocked == MakesDst /\ Exists(ARGS.dst_dir) /\ ~ARGS.overwrite

\* Mutant: the directory is made over what is there (mkdir with exist_ok).
PrepareDstMerge == IF MakesDst THEN Mkdir(fs, ARGS.dst_dir) ELSE fs

\* The file system after rmtree (of an existing directory) and mkdir.
PrepareDst ==
    IF MakesDst
    THEN Mkdir(IF Exists(ARGS.dst_dir) THEN Rmtree(fs, ARGS.dst_dir) ELSE fs,
               ARGS.dst_dir)
    ELSE fs

Album ==
    /\ pc = "album"
    /\     IF FILES_TOTAL < 1
           THEN Exit1(<<"There are no supported audio files">>)
                /\ UNCHANGED <<fs, fcount, stack>>
           ELSE IF DstBlocked
           THEN Exit1(<<"Target directory already exists">>)
                /\ UNCHANGED <<fs, fcount, stack>>
           ELSE /\ fs' = PrepareDst
                /\ stack' = <<CallFrame(ARGS.src, <<>>)>>
                /\ fcount' = InitialFcount
                /\ pc' = "walk"
                /\ UNCHANGED <<status, console>>
    /\ UNCHANGED <<ARGS, FILES_TOTAL, SHORT_LOG, entry, tmp, files_total,
                   emitted, created, fs0, prev, kwargs,
                   cmpVars>>

(***************************************************************************)
(* _dir_walk: the generator, one frame per recursion level.  It runs only  *)
(* while the for loop of _album_copy waits for the next item (pc = "walk").*)
(***************************************************************************)
Top == Head(stack)

SetTop(frame) == <<frame>> \o Tail(stack)

\* The subdirectories first, whatever the direction
WalkOrderForward == <<"into", "along">>

\* The order of the two passes over a directory.
WalkOrder == IF ARGS.reverse THEN <<"along", "into">> ELSE <<"into", "along">>

\* The body of _dir_walk up to the definitions of walk_into and walk_along:
\* a source that is an audio file stands for a directory holding only it;
\* otherwise the directory is listed, in whatever order the operating
\* system gives, and the two partitions are sorted.
DirWalk ==
    /\ pc = "walk"
    /\ stack # <<>>
    /\ Top.at = "call"
    /\ LET src == Top.src
       IN  IF _is_audiofile(src)
           THEN /\ stack' = SetTop([Top EXCEPT !.src = PathParent(src),
                                               !.files = <<PathName(src)>>,
                                               !.todo = WalkOrder,
                                               !.at = "run"])
                /\ UNCHANGED <<pc, status, console>>
           ELSE IF ~IsDir(src)
           THEN Crash /\ UNCHANGED stack
           ELSE /\ \E lst \in Orders(Children(src)) :
                      stack' = SetTop([Top EXCEPT
                          !.dirs = sorted("dirs",
                                     SelectSeq(lst, LAMBDA x : IsDir(Append(src, x)))),
                          !.files = sorted("files",
                                     SelectSeq(lst,
                                               LAMBDA x : _is_audiofile(Append(src, x)))),
                          !.todo = WalkOrder,
                          !.at = "run"])
                /\ UNCHANGED <<pc, status, console>>
    /\ UNCHANGED <<ARGS, fs, FILES_TOTAL, SHORT_LOG, fcount, entry, tmp,
                   files_total, emitted, created, fs0, prev, kwargs,
                   cmpVars>>

\* walk_into: the next subdirectory gets its own generator, with the
\* directory's name appended to a copy of step_down.
WalkInto ==
    /\ pc = "walk"
    /\ stack # <<>>
    /\ Top.at = "run"
    /\ Top.todo # <<>>
    /\ Head(Top.todo) = "into"
    /\ Top.dirs # <<>>
    /\ LET directory == Head(Top.dirs)
       IN  stack' = <<CallFrame(Append(Top.src, directory),
                                Append(Top.step_down, directory))>>
                    \o SetTop([Top EXCEPT !.dirs = Tail(@)])
    /\ UNCHANGED <<ARGS, fs, pc, status, FILES_TOTAL, SHORT_LOG, console, fcount,
                   entry, tmp, files_total, emitted, created, fs0, prev, kwargs,
                   cmpVars>>

\* walk_along: yield fcount[0], step_down, file.  The for loop takes the
\* item and calls file_copy.
WalkAlong ==
    /\ pc = "walk"
    /\ stack # <<>>
    /\ Top.at = "run"
    /\ Top.todo # <<>>
    /\ Head(Top.todo) = "along"
    /\ Top.files # <<>>
    /\ LET item == <<fcount[1], Top.step_down, Head(Top.files)>>
       IN  /\ entry' = item
           /\ emitted' = Append(emitted, item)
    /\ stack' = SetTop([Top EXCEPT !.at = "yield"])
    /\ pc' = "file_copy"
    /\ UNCHANGED <<ARGS, fs, status, FILES_TOTAL, SHORT_LOG, console, fcount,
                   tmp, files_total, created, fs0, prev, kwargs,
                   cmpVars>>

\* Mutant: the counter is not stepped.
WalkResumeStuck ==
    /\ pc = "walk"
    /\ stack # <<>>
    /\ Top.at = "yield"
    /\ stack' = SetTop([Top EXCEPT !.files = Tail(@), !.at = "run"])
    /\ UNCHANGED <<ARGS, fs, pc, status, FILES_TOTAL, SHORT_LOG, console, fcount,
                   entry, tmp, files_total, emitted, created, fs0, prev, kwargs,
                   cmpVars>>

\* walk_along resumed after its yield: fcount[0] += fcount[1], next file.
WalkResume ==
    /\ pc = "walk"
    /\ stack # <<>>
    /\ Top.at = "yield"
    /\ fcount' = <<fcount[1] + fcount[2], fcount[2]>>
    /\ stack' = SetTop([Top EXCEPT !.files = Tail(@), !.at = "run"])
    /\ UNCHANGED <<ARGS, fs, pc, status, FILES_TOTAL, SHORT_LOG, console, entry,
                   tmp, files_total, emitted, created, fs0, prev, kwargs,
                   cmpVars>>

\* A pass that has nothing left ends; after the second pass the generator
\* returns to the one that delegated to it, and the outermost return ends
\* the for loop.
WalkDone ==
    /\ pc = "walk"
    /\ stack # <<>>
    /\ Top.at = "run"
    /\ IF Top.todo = <<>>
       THEN /\ stack' = Tail(stack)
            /\ pc' = IF Tail(stack) = <<>> THEN "summary" ELSE "walk"
       ELSE /\ IF Head(Top.todo) = "into" THEN Top.dirs = <<>> ELSE Top.files = <<>>
            /\ stack' = SetTop([Top EXCEPT !.todo = Tail(@)])
            /\ UNCHANGED pc
    /\ UNCHANGED <<ARGS, fs, status, FILES_TOTAL, SHORT_LOG, console, fcount,
                   entry, tmp, files_total, emitted, created, fs0, prev, kwargs,
                   cmpVars>>

(***************************************************************************)
(* _album_copy: file_copy and copy_and_set_via_tmp for the item in entry,  *)
(* then the accounting of the for loop.                                    *)
(***************************************************************************)
\* file_copy up to the call of copy_and_set_via_tmp, and mkstemp in it.
FileCopy ==
    /\ pc = "file_copy"
    /\ LET src == EntrySrc(entry)
           dst_path == EntryDstPath(entry)
           dst == EntryDst(entry)
       IN  IF ~Exists(src)
           THEN Crash /\ UNCHANGED <<fs, SHORT_LOG, tmp, files_total>>
           ELSE IF ARGS.dry_run
           THEN /\ files_total' = files_total + 1
                /\ pc' = "walk"
                /\ UNCHANGED <<fs, SHORT_LOG, tmp, status, console>>
           ELSE IF IsFile(dst)
           THEN /\ fs' = Mkdir(fs, dst_path)
                /\ SHORT_LOG' = Append(SHORT_LOG, "already copied")
                /\ files_total' = files_total + 1
                /\ pc' = "walk"
                /\ UNCHANGED <<tmp, status, console>>
           ELSE /\ fs' = Mkdir(fs, dst_path)
                /\ tmp' = <<FileNode(FALSE, <<>>, NoTags)>>
                /\ pc' = "copy_tmp"
                /\ UNCHANGED <<SHORT_LOG, files_total, status, console>>
    /\ UNCHANGED <<ARGS, FILES_TOTAL, fcount, stack, entry, emitted, created,
                   fs0, prev, kwargs, cmpVars>>

\* shutil.copy(src, tmp)
CopyToTmp ==
    /\ pc = "copy_tmp"
    /\ tmp' = <<fs[EntrySrc(entry)]>>
    /\ pc' = "set_tags"
    /\ UNCHANGED <<ARGS, fs, status, FILES_TOTAL, SHORT_LOG, console, fcount,
                   stack, entry, files_total, emitted, created, fs0, prev, kwargs,
                   cmpVars>>

\* set_tags(index, src, tmp)
SetTags ==
    /\ pc = "set_tags"
    /\ tmp' = <<set_tags(entry[1], EntrySrc(entry), TmpPath(EntrySrc(entry)),
                         tmp[1])>>
    /\ pc' = "copy_dst"
    /\ UNCHANGED <<ARGS, fs, status, FILES_TOTAL, SHORT_LOG, console, fcount,
                   stack, entry, files_total, emitted, created, fs0, prev, kwargs,
                   cmpVars>>

\* shutil.copy(tmp, dst)
CopyToDst ==
    /\ pc = "copy_dst"
    /\ fs' = WriteFile(fs, EntryDst(entry), tmp[1])
    /\ created' = Append(created, [index |-> entry[1], dst |-> EntryDst(entry)])
    /\ pc' = "rm_tmp"
    /\ UNCHANGED <<ARGS, status, FILES_TOTAL, SHORT_LOG, console, fcount, stack,
                   entry, tmp, files_total, emitted, fs0, prev, kwargs,
                   cmpVars>>

\* Mutant: the copied file is not counted.
RemoveTmpUncounted ==
    /\ pc = "rm_tmp"
    /\ tmp' = <<>>
    /\ pc' = "walk"
    /\ UNCHANGED <<ARGS, fs, status, FILES_TOTAL, SHORT_LOG, console, fcount,
                   stack, entry, files_total, emitted, created, fs0, prev, kwargs,
                   cmpVars>>

\* os.remove(tmp), the return of file_copy, files_total += 1
RemoveTmp ==
    /\ pc = "rm_tmp"
    /\ tmp' = <<>>
    /\ files_total' = files_total + 1
    /\ pc' = "walk"
    /\ UNCHANGED <<ARGS, fs, status, FILES_TOTAL, SHORT_LOG, console, fcount,
                   stack, entry, emitted, created, fs0, prev, kwargs,
                   cmpVars>>

\* What a copy that was broken off has written: a file the tag library
\* does not recognise
PartOf(src) == FileNode(FALSE, src, NoTags)

\* What a step of copy_and_set_via_tmp leaves when it is broken off: the
\* temporary file as it was or partly written, the destination file absent
\* or partly written.
BrokenOff ==
    /\ tmp' \in IF pc = "copy_tmp" THEN {tmp, <<PartOf(EntrySrc(entry))>>}
                ELSE {tmp}
    /\ fs' \in IF pc = "copy_dst"
               THEN {fs, WriteFile(fs, EntryDst(entry), PartOf(EntrySrc(entry)))}
               ELSE {fs}

\* KeyboardInterrupt raised inside the try statement of _run, at any point of
\* the count, of the copy loop and of what follows it: the except clause
\* prints its message and _run returns 1.
Interrupt ==
    /\ pc \in {"count", "album", "walk", "file_copy", "copy_tmp", "set_tags",
               "copy_dst", "rm_tmp", "summary", "epilogue"}
    /\ BrokenOff
    /\ Exit1(<<"Aborted manually">>)
    /\ UNCHANGED <<ARGS, FILES_TOTAL, SHORT_LOG, fcount, stack, entry,
                   files_total, emitted, created, fs0, prev, kwargs, cmpVars>>

\* An OSError raised by shutil.copy or by the save of the tags: nothing
\* catches it.
CopyError ==
    /\ pc \in {"copy_tmp", "set_tags", "copy_dst"}
    /\ BrokenOff
    /\ Crash
    /\ UNCHANGED <<ARGS, FILES_TOTAL, SHORT_LOG, fcount, stack, entry,
                   files_total, emitted, created, fs0, prev, kwargs, cmpVars>>

\* After the loop: the summary line and the check of the two totals.
Summary ==
    /\ pc = "summary"
    /\ console' = console \o <<"Done">>
                  \o (IF files_total # FILES_TOTAL THEN <<"Fatal error">> ELSE <<>>)
    /\ pc' = "epilogue"
    /\ UNCHANGED <<ARGS, fs, status, FILES_TOTAL, SHORT_LOG, fcount, stack, entry,
                   tmp, files_total, emitted, created, fs0, prev, kwargs,
                   cmpVars>>

\* The end of _run: the short log is shown and cleared, the status is 0.
Epilogue ==
    /\ pc = "epilogue"
    /\ console' = console \o SHORT_LOG
    /\ SHORT_LOG' = <<>>
    /\ status' = 0
    /\ pc' = "exit"
    /\ UNCHANGED <<ARGS, fs, FILES_TOTAL, fcount, stack, entry, tmp, files_total,
                   emitted, created, fs0, prev, kwargs,
                   cmpVars>>

(***************************************************************************)
(* The function run called again after a run that ended well: the same     *)
(* options, the walk direction chosen anew, the album directory of the     *)
(* first run overwritten.                                                  *)
(***************************************************************************)
Again ==
    /\ pc = "exit"
    /\ status = 0
    /\ prev.n = 0
    /\ \E reverse \in BOOLEAN :
           ARGS' = [kwargs EXCEPT !.reverse = reverse, !.overwrite = TRUE]
    /\ prev' = [n |-> 1, reverse |-> ARGS.reverse, emitted |-> emitted]
    /\ fs0' = fs
    /\ pc' = "run"
    /\ status' = -1
    /\ FILES_TOTAL' = -1
    /\ SHORT_LOG' = <<>>
    /\ console' = <<>>
    /\ fcount' = <<0, 0>>
    /\ stack' = <<>>
    /\ entry' = <<>>
    /\ tmp' = <<>>
    /\ files_total' = 0
    /\ emitted' = <<>>
    /\ created' = <<>>
    /\ UNCHANGED <<fs, kwargs, cmpVars>>

(***************************************************************************)
(* The comparator applied to three strings; the two comparisons of         *)
(* directory entries applied to the first two, taken as directory names    *)
(* and, with the extensions ".m" and ".t", as file names.                  *)
(***************************************************************************)
ExtM == <<46, 109>>
ExtT == <<46, 116>>

Compare ==
    /\ pc = "idle"
    /\ ~ord.done
    /\ ord' = [done |-> TRUE,
               xx |-> strcmp_naturally(str_x, str_x),
               xy |-> strcmp_naturally(str_x, str_y),
               yx |-> strcmp_naturally(str_y, str_x),
               yz |-> strcmp_naturally(str_y, str_z),
               xz |-> strcmp_naturally(str_x, str_z),
               pxy |-> _path_compare(str_x, str_y),
               fxy |-> _file_compare(str_x \o ExtM, str_y \o ExtT),
               fxx |-> _file_compare(str_x \o ExtM, str_x \o ExtT)]
    /\ UNCHANGED <<str_x, str_y, str_z, call, runVars>>

NoOrd == [done |-> FALSE, xx |-> 0, xy |-> 0, yx |-> 0, yz |-> 0, xz |-> 0,
          pxy |-> 0, fxy |-> 0, fxx |-> 0]

(***************************************************************************)
(* The naming functions called on their own, as the tests call them: the   *)
(* context and _FILES_TOTAL are set, then one function is applied.         *)
(***************************************************************************)
\* The source directory /s; the destination root is /t, or the source
\* itself, or the parent of the source.
SrcRoot == <<<<115>>>>
DstRoots == {<<<<116>>>>, SrcRoot, <<>>}

NoCall == [fn |-> "none", i |-> 0, step_down |-> <<>>, file |-> <<>>,
           audio |-> FALSE, result |-> <<>>]

\* The depth of the step_down lists given to _file_decorate.
MaxStepDown == 2

RECURSIVE StepDownsUpTo(_)
StepDownsUpTo(n) ==
    IF n = 0 THEN {<<>>}
    ELSE LET shorter == StepDownsUpTo(n - 1)
         IN  shorter \cup {Append(t, d) : t \in shorter,
                                          d \in {<<100, 49>>, <<100, 50>>}}

\* File names "a.m", "a1.m" and "a" (no extension); totals and indices of
\* one, two and three digits.
DecorateFiles == {<<97, 46, 109>>, <<97, 49, 46, 109>>, <<97>>}
Totals == {1, 9, 42, 100, 533}
Indices(total) == {k \in {1, 7, 9, 10, 42, 99, 100, 533} : k <= total}

FileDecorateCall ==
    /\ pc = "decorate"
    /\ call.fn = "none"
    /\ \E i \in Indices(FILES_TOTAL), step_down \in StepDownsUpTo(MaxStepDown),
          file \in DecorateFiles :
           call' = [NoCall EXCEPT !.fn = "_file_decorate", !.i = i,
                                  !.step_down = step_down, !.file = file,
                                  !.result = _file_decorate(i, step_down, file)]
    /\ UNCHANGED <<str_x, str_y, str_z, ord, runVars>>

DstCalculateCall ==
    /\ pc = "dst"
    /\ call.fn = "none"
    /\ call' = [NoCall EXCEPT !.fn = "_dst_calculate", !.result = _dst_calculate]
    /\ UNCHANGED <<str_x, str_y, str_z, ord, runVars>>

\* set_tags on a copy of the source file /s/<file>, which the tag library
\* recognises or not; the result is the tags of the copy.
SetTagsCall ==
    /\ pc = "tags"
    /\ call.fn = "none"
    /\ \E i \in Indices(FILES_TOTAL), file \in DecorateFiles, audio \in BOOLEAN :
           LET source == Append(SrcRoot, file)
           IN  call' = [NoCall EXCEPT
                           !.fn = "set_tags", !.i = i, !.file = file,
                           !.audio = audio,
                           !.result = set_tags(i, source, TmpPath(source),
                                               FileNode(audio, source, NoTags)).tags]
    /\ UNCHANGED <<str_x, str_y, str_z, ord, runVars>>

\* The length of the texts given to initials.
MaxAuthorsLen == 5

RECURSIVE TextsUpTo(_, _)
TextsUpTo(chars, n) ==
    IF n = 0 THEN {<<>>}
    ELSE LET shorter == TextsUpTo(chars, n - 1)
         IN  shorter \cup {Append(t, ch) : t \in shorter, ch \in chars}

\* The texts: all short ones over a letter, the four delimiters (space, dot,
\* hyphen, comma), the double quote and the backslash; and some names with
\* apostrophes, capitals, particles and tabs: "a'b", "'a", "a'", "'",
\* "d'A", "aBc", "Sr", "de a", "a\t-b", "a.-,b"
AuthorsChars == {97, 32, 46, 45, 44, 34, 92}
AuthorsNames ==
    {<<97, 39, 98>>, <<39, 97>>, <<97, 39>>, <<39>>, <<100, 39, 65>>,
     <<97, 66, 99>>, <<83, 114>>, <<100, 101, 32, 97>>, <<97, 9, 45, 98>>,
     <<97, 46, 45, 44, 98>>}
Authors == TextsUpTo(AuthorsChars, MaxAuthorsLen) \cup AuthorsNames

InitialsCall ==
    /\ pc = "initials"
    /\ call.fn = "none"
    /\ \E authors \in Authors :
           call' = [NoCall EXCEPT !.fn = "initials", !.file = authors,
                                  !.result = initials(authors)]
    /\ UNCHANGED <<str_x, str_y, str_z, ord, runVars>>

(***************************************************************************)
(* Initial states.                                                         *)
(***************************************************************************)
\* Bounds of the run specifications: the number of audio files in a source.
MaxRunFiles == 3
MaxWalkFiles == 4

\* CLEAN_CONTEXT_PARAMS, the options the model reads
CleanArgs ==
    [src |-> None, dst_dir |-> None, drop_tracknumber |-> FALSE,
     strip_decorations |-> FALSE, sort_lex |-> FALSE, tree_dst |-> FALSE,
     drop_dst |-> FALSE, reverse |-> FALSE, overwrite |-> FALSE,
     dry_run |-> FALSE, count |-> FALSE, prepend_subdir_name |-> FALSE,
     file_title |-> FALSE, file_title_num |-> FALSE, file_type |-> None,
     unified_name |-> None, artist |-> None, album |-> None, album_num |-> -1]

\* Directory names "d1", "d2"; audio file names "1.m", "a1.m", "a0.m", "a.m":
\* "1" and "a1" hold the same number, "a" holds none.
DirNames == {<<100, 49>>, <<100, 50>>}
FileNames == {<<49, 46, 109>>, <<97, 49, 46, 109>>, <<97, 48, 46, 109>>, <<97, 46, 109>>}

\* A file the tag library does not recognise, "0.t", lies in every source.
Others == {<<<<48, 46, 116>>>>}

\* Files left in the album directory by an earlier run: "o.m"
OldFile == <<111, 46, 109>>

\* A file left in the destination root by an earlier run that dropped the
\* album directory: "2-a1.m"
CopiedFile == <<50, 45, 97, 49, 46, 109>>

\* A symbolic link in the source, "l", to a directory outside it
LinkName == <<108>>

RECURSIVE SubsetsUpTo(_, _)
SubsetsUpTo(S, n) ==
    IF n = 0 THEN {{}}
    ELSE LET smaller == SubsetsUpTo(S, n - 1)
         IN  smaller \cup {t \cup {x} : t \in smaller, x \in S}

\* Sources, as sets of audio file paths relative to the source directory.
\* Any of the names in the source directory; "1.m" and "a.m" in d1, d2 and
\* d1/d2.
SubFileNames == {<<49, 46, 109>>, <<97, 46, 109>>}
WalkCandidates ==
    {<<f>> : f \in FileNames}
    \cup {<<d, f>> : d \in DirNames, f \in SubFileNames}
    \cup {<<<<100, 49>>, <<100, 50>>, f>> : f \in SubFileNames}
WalkTrees == SubsetsUpTo(WalkCandidates, MaxWalkFiles)

RunCandidates ==
    {<<<<97, 49, 46, 109>>>>, <<<<97, 46, 109>>>>,
     <<<<100, 49>>, <<49, 46, 109>>>>,
     <<<<100, 50>>, <<49, 46, 109>>>>,
     <<<<100, 49>>, <<100, 50>>, <<97, 48, 46, 109>>>>}
RunTrees == SubsetsUpTo(RunCandidates, MaxRunFiles)

\* Sources with a linked directory: "a.m", "d1/1.m", "l/1.m", "l/a.m"
LinkCandidates ==
    {<<<<97, 46, 109>>>>, <<<<100, 49>>, <<49, 46, 109>>>>,
     <<LinkName, <<49, 46, 109>>>>, <<LinkName, <<97, 46, 109>>>>}
LinkTrees == SubsetsUpTo(LinkCandidates, MaxRunFiles)

\* The file system: the source with its audio files, the destination root,
\* and (pre) what earlier runs left: an album directory holding one file,
\* and one file in the destination root itself.
MkFs(src, files, dst_root, pre) ==
    LET audio == {SrcRoot \o f : f \in files}
        other == {SrcRoot \o f : f \in Others}
        album == IF src = SrcRoot THEN PathName(src) ELSE Stem(PathName(src))
        old == IF pre THEN {dst_root \o <<album, OldFile>>,
                            Append(dst_root, CopiedFile)}
               ELSE {}
        allfiles == audio \cup other \cup old
        dirs == UNION {Prefixes(PathParent(p)) : p \in allfiles}
                \cup Prefixes(SrcRoot) \cup Prefixes(dst_root)
    IN  [p \in allfiles \cup dirs |->
            IF p \in allfiles THEN FileNode(p \notin other, p, NoTags)
            ELSE IF PathName(p) = LinkName THEN LinkNode
            ELSE DirNode]

\* The sources a run may be given: the directory, or one audio file that
\* lies directly in it.
Sources(files) == {SrcRoot} \cup {SrcRoot \o f : f \in {g \in files : Len(g) = 1}}

NoPrev == [n |-> 0, reverse |-> FALSE, emitted |-> <<>>]

InitRun(src, files, dst_root, pre, args) ==
    /\ ARGS = [args EXCEPT !.src = src, !.dst_dir = dst_root]
    /\ kwargs = [args EXCEPT !.src = src, !.dst_dir = dst_root]
    /\ prev = NoPrev
    /\ fs = MkFs(src, files, dst_root, pre)
    /\ fs0 = MkFs(src, files, dst_root, pre)
    /\ pc = "run"
    /\ status = -1
    /\ FILES_TOTAL = -1
    /\ SHORT_LOG = <<>>
    /\ console = <<>>
    /\ fcount = <<0, 0>>
    /\ stack = <<>>
    /\ entry = <<>>
    /\ tmp = <<>>
    /\ files_total = 0
    /\ emitted = <<>>
    /\ created = <<>>
    /\ str_x = <<>> /\ str_y = <<>> /\ str_z = <<>>
    /\ ord = NoOrd
    /\ call = NoCall

\* Runs under every combination of the options that decide what _run and
\* _album do with the destination.
Init ==
    \E files \in RunTrees, dst_root \in DstRoots, pre \in BOOLEAN,
       reverse \in BOOLEAN, dry_run \in BOOLEAN, overwrite \in BOOLEAN,
       drop_dst \in BOOLEAN, count \in BOOLEAN, tree_dst \in BOOLEAN :
      \E src \in Sources(files) :
        InitRun(src, files, dst_root, pre,
                [CleanArgs EXCEPT !.reverse = reverse, !.dry_run = dry_run,
                                  !.overwrite = overwrite, !.drop_dst = drop_dst,
                                  !.count = count, !.tree_dst = tree_dst])

\* The file-type filters: none, the extension "m", the pattern "a*"
FileTypes == {None, <<109>>, <<97, 42>>}

\* Runs onto a fresh destination of sources that may hold a linked
\* directory, under a file-type filter, with an artist or without.
InitLinks ==
    \E files \in LinkTrees, reverse \in BOOLEAN, dry_run \in BOOLEAN,
       file_type \in FileTypes, artist \in {None, <<114>>} :
        InitRun(SrcRoot, files, <<<<116>>>>, FALSE,
                [CleanArgs EXCEPT !.reverse = reverse, !.dry_run = dry_run,
                                  !.file_type = file_type, !.artist = artist])

\* Runs onto a fresh destination that may be interrupted or fail.
InitInterrupt ==
    \E files \in RunTrees, reverse \in BOOLEAN, dry_run \in BOOLEAN :
        InitRun(SrcRoot, files, <<<<116>>>>, FALSE,
                [CleanArgs EXCEPT !.reverse = reverse, !.dry_run = dry_run])

\* Runs onto a fresh destination under every combination of the options
\* that make the destination names.
InitLayout ==
    \E files \in RunTrees, reverse \in BOOLEAN, tree_dst \in BOOLEAN,
       strip_decorations \in BOOLEAN, prepend_subdir_name \in BOOLEAN,
       unified_name \in {None, <<117>>} :
        InitRun(SrcRoot, files, <<<<116>>>>, FALSE,
                [CleanArgs EXCEPT !.reverse = reverse, !.tree_dst = tree_dst,
                                  !.strip_decorations = strip_decorations,
                                  !.prepend_subdir_name = prepend_subdir_name,
                                  !.unified_name = unified_name])

\* Plain runs onto a fresh destination, over many sources, in both walk
\* directions and both sort modes.
InitWalk ==
    \E files \in WalkTrees, reverse \in BOOLEAN, sort_lex \in BOOLEAN :
      \E src \in Sources(files) :
        InitRun(src, files, <<<<116>>>>, FALSE,
                [CleanArgs EXCEPT !.reverse = reverse, !.sort_lex = sort_lex])

\* The comparator on all triples of short strings, in both sort modes.
InitCmp ==
    /\ str_x \in CmpStrings /\ str_y \in CmpStrings /\ str_z \in ThirdStrings
    /\ ord = NoOrd
    /\ call = NoCall
    /\ \E sort_lex \in BOOLEAN :
           /\ ARGS = [CleanArgs EXCEPT !.sort_lex = sort_lex]
           /\ kwargs = [CleanArgs EXCEPT !.sort_lex = sort_lex]
    /\ prev = NoPrev
    /\ fs = <<>> /\ fs0 = <<>>
    /\ pc = "idle"
    /\ status = -1
    /\ FILES_TOTAL = -1
    /\ SHORT_LOG = <<>>
    /\ console = <<>>
    /\ fcount = <<0, 0>>
    /\ stack = <<>>
    /\ entry = <<>>
    /\ tmp = <<>>
    /\ files_total = 0
    /\ emitted = <<>>
    /\ created = <<>>

\* The options a name is made of: not given, empty, or a text ("u" for the
\* unified name, "r" or "de r" for the artist, "b" for the album).
NameOptions == {None, <<>>}
AlbumNums == {-1, 0, 7, 42, 99}

\* A context for one call of a naming function: the source is the
\* directory /s or the file /s/a1.m in it.
InitCall(at, src, total, args) ==
    /\ ARGS = [args EXCEPT !.src = src, !.dst_dir = <<<<116>>>>]
    /\ kwargs = [args EXCEPT !.src = src, !.dst_dir = <<<<116>>>>]
    /\ prev = NoPrev
    /\ fs = MkFs(src, {<<<<97, 49, 46, 109>>>>}, <<<<116>>>>, FALSE)
    /\ fs0 = MkFs(src, {<<<<97, 49, 46, 109>>>>}, <<<<116>>>>, FALSE)
    /\ pc = at
    /\ status = -1
    /\ FILES_TOTAL = total
    /\ SHORT_LOG = <<>>
    /\ console = <<>>
    /\ fcount = <<0, 0>>
    /\ stack = <<>>
    /\ entry = <<>>
    /\ tmp = <<>>
    /\ files_total = 0
    /\ emitted = <<>>
    /\ created = <<>>
    /\ str_x = <<>> /\ str_y = <<>> /\ str_z = <<>>
    /\ ord = NoOrd
    /\ call = NoCall

InitNames ==
    \/ \E strip_decorations \in BOOLEAN, tree_dst \in BOOLEAN,
          prepend_subdir_name \in BOOLEAN,
          unified_name \in NameOptions \cup {<<117>>},
          artist \in NameOptions \cup {<<114>>}, total \in Totals :
           InitCall("decorate", SrcRoot, total,
                    [CleanArgs EXCEPT !.strip_decorations = strip_decorations,
                                      !.tree_dst = tree_dst,
                                      !.prepend_subdir_name = prepend_subdir_name,
                                      !.unified_name = unified_name,
                                      !.artist = artist])
    \/ \E album_num \in AlbumNums, drop_dst \in BOOLEAN,
          unified_name \in NameOptions \cup {<<117>>},
          artist \in NameOptions \cup {<<114>>},
          src \in {SrcRoot, Append(SrcRoot, <<97, 49, 46, 109>>)} :
           InitCall("dst", src, 1,
                    [CleanArgs EXCEPT !.album_num = album_num,
                                      !.drop_dst = drop_dst,
                                      !.unified_name = unified_name,
                                      !.artist = artist])
    \/ \E file_title \in BOOLEAN, file_title_num \in BOOLEAN,
          drop_tracknumber \in BOOLEAN,
          artist \in NameOptions \cup {<<100, 101, 32, 114>>},
          album \in NameOptions \cup {<<98>>}, total \in {9, 42} :
           InitCall("tags", SrcRoot, total,
                    [CleanArgs EXCEPT !.file_title = file_title,
                                      !.file_title_num = file_title_num,
                                      !.drop_tracknumber = drop_tracknumber,
                                      !.artist = artist, !.album = album])
    \/ InitCall("initials", SrcRoot, 1, CleanArgs)

Next ==
    \/ Run \/ Count \/ Album
    \/ DirWalk \/ WalkInto \/ WalkAlong \/ WalkResume \/ WalkDone
    \/ FileCopy \/ CopyToTmp \/ SetTags \/ CopyToDst \/ RemoveTmp
    \/ Summary \/ Epilogue

\* Plain runs, each followed by a second run of the same source.
NextWalk == Next \/ Again

\* Runs in which an interrupt or an error of a copy may happen.
NextInterrupt == Next \/ Interrupt \/ CopyError

NextCmp == Compare

NextNames == FileDecorateCall \/ DstCalculateCall \/ SetTagsCall \/ InitialsCall

Spec == Init /\ [][Next]_vars
SpecWalk == InitWalk /\ [][NextWalk]_vars
SpecCmp == InitCmp /\ [][NextCmp]_vars
SpecNames == InitNames /\ [][NextNames]_vars
SpecLinks == InitLinks /\ [][Next]_vars
SpecInterrupt == InitInterrupt /\ [][NextInterrupt]_vars
SpecLayout == InitLayout /\ [][Next]_vars

(***************************************************************************)
(* Properties.                                                             *)
(***************************************************************************)
\* p is q or lies below q
Under(p, q) == \E k \in 0..Len(p) : SubSeq(p, 1, k) = q

\* The audio files the source of the run held when the run began.
SourceFiles ==
    {p \in DOMAIN fs0 : Under(p, ARGS.src) /\ fs0[p].kind = "file" /\ fs0[p].audio}

\* The for loop of _album_copy has run to its end.
WalkEnded == pc \in {"summary", "epilogue"} \/ (pc = "exit" /\ status = 0)

C2_SameIndexBothModes ==
    (prev.n = 1 /\ prev.reverse # ARGS.reverse) =>
        \A i \in DOMAIN emitted, j \in DOMAIN prev.emitted :
            (emitted[i][2] = prev.emitted[j][2] /\ emitted[i][3] = prev.emitted[j][3])
                => emitted[i][1] = prev.emitted[j][1]

\* The string has a digit.
HasDigit(s) == \E i \in DOMAIN s : s[i] \in 48..57

\* a sorts before b code point by code point
LexLess(a, b) ==
    \E k \in 1..Len(b) :
        /\ \A j \in 1..(k - 1) : j <= Len(a) /\ a[j] = b[j]
        /\ k > Len(a) \/ a[k] < b[k]

LexCmp(a, b) == IF a = b THEN 0 ELSE IF LexLess(a, b) THEN -1 ELSE 1

\* C8: strcmp_naturally(a, b) = -strcmp_naturally(b, a), and
\* strcmp_naturally(a, a) = 0.
C8_Antisymmetric ==
    ord.done => (ord.xy = -ord.yx /\ ord.xx = 0)

\* Two different strings with digits were compared, and one is greater.
C8_Witness ==
    ord.done /\ HasDigit(str_x) /\ HasDigit(str_y) /\ ord.xy = 1 /\ ord.yx = -1

\* C9: strcmp_naturally is transitive: a < b and b < c give a < c, and
\* a EQ b and b EQ c give a EQ c.
C9_Transitive ==
    ord.done =>
        /\ (ord.xy < 0 /\ ord.yz < 0) => ord.xz < 0
        /\ (ord.xy = 0 /\ ord.yz = 0) => ord.xz = 0

\* C10: when one of the two strings has no digit, strcmp_naturally is the
\* code point comparison of the full strings; two empty strings are EQ.
C10_PlainWithoutDigits ==
    (ord.done /\ (~HasDigit(str_x) \/ ~HasDigit(str_y))) =>
        /\ ord.xy = LexCmp(str_x, str_y)
        /\ (str_x = <<>> /\ str_y = <<>>) => ord.xy = 0

\* A string with a digit compared with a greater string without one.
C10_Witness ==
    ord.done /\ HasDigit(str_x) /\ ~HasDigit(str_y) /\ str_y # <<>> /\ ord.xy = -1

\* The places where a maximal digit run of s begins.
RunStarts(s) ==
    {i \in DOMAIN s : s[i] \in 48..57 /\ (i = 1 \/ s[i - 1] \notin 48..57)}

\* The last place of the digit run that begins at i.
RunLast(s, i) ==
    CHOOSE j \in i..Len(s) :
        /\ \A k \in i..j : s[k] \in 48..57
        /\ j = Len(s) \/ s[j + 1] \notin 48..57

RECURSIVE DecimalValue(_, _, _)
\* The number written by the digits s[i..j].
DecimalValue(s, i, j) ==
    IF j < i THEN 0 ELSE DecimalValue(s, i, j - 1) * 10 + (s[j] - 48)

\* The integers written by the maximal digit runs of s, left to right.
NumberVector(s) ==
    LET starts == RunStarts(s)
        kth(k) == CHOOSE i \in starts : Cardinality({j \in starts : j < i}) = k - 1
    IN  [k \in 1..Cardinality(starts) |->
            DecimalValue(s, kth(k), RunLast(s, kth(k)))]

\* u is a proper prefix of v
ProperPrefix(u, v) == Len(u) < Len(v) /\ SubSeq(v, 1, Len(u)) = u

\* The natural order as the specification words it.
NaturalCmp(a, b) ==
    IF HasDigit(a) /\ HasDigit(b)
    THEN LexCmp(NumberVector(a), NumberVector(b))
    ELSE LexCmp(a, b)

\* C11: when both strings have a digit run strcmp_naturally is decided by
\* the two vectors of integers alone: the first place where they differ
\* decides, a proper prefix sorts first, a leading zero changes nothing,
\* and equal vectors give EQ whatever the other text.
C11_DigitVectors ==
    (ord.done /\ HasDigit(str_x) /\ HasDigit(str_y)) =>
        LET u == NumberVector(str_x)
            v == NumberVector(str_y)
        IN  /\ ord.xy = LexCmp(u, v)
            /\ u = v => ord.xy = 0
            /\ ProperPrefix(u, v) => ord.xy = -1
            /\ (\E k \in 1..Len(u) :
                    /\ k <= Len(v) /\ SubSeq(u, 1, k - 1) = SubSeq(v, 1, k - 1)
                    /\ u[k] < v[k]) => ord.xy = -1
            /\ (IsDigit(Head(str_x)) /\ str_y = <<48>> \o str_x) => ord.xy = 0

\* Two strings compared whose vectors are one number and that number
\* followed by another; the shorter vector sorts first though its string
\* is the greater one.
C11_Witness ==
    /\ ord.done /\ HasDigit(str_x) /\ HasDigit(str_y)
    /\ Len(NumberVector(str_y)) = 2
    /\ ProperPrefix(NumberVector(str_x), NumberVector(str_y))
    /\ LexCmp(str_x, str_y) = 1
    /\ ord.xy = -1

\* C12: with sort_lex set _path_compare is the code point comparison of
\* the two names and _file_compare that of the two stems ("10" before
\* "a1"); with sort_lex clear both are the natural comparison of the same
\* strings ("a1" before "10"); in both modes _file_compare does not look at
\* the extension, so a name is EQ to itself under another extension.
C12_SortModes ==
    (ord.done /\ str_x # <<>> /\ str_y # <<>>) =>
        /\ ord.pxy = (IF ARGS.sort_lex THEN LexCmp(str_x, str_y)
                                       ELSE NaturalCmp(str_x, str_y))
        /\ ord.fxy = (IF ARGS.sort_lex THEN LexCmp(str_x, str_y)
                                       ELSE NaturalCmp(str_x, str_y))
        /\ ord.fxx = 0

\* In the lexicographic mode "10" was found to sort before "a1", as a
\* directory name and as a file stem.
C12_Witness ==
    /\ ord.done /\ ARGS.sort_lex
    /\ str_x = <<49, 48>> /\ str_y = <<97, 49>>
    /\ ord.pxy = -1 /\ ord.fxy = -1
    /\ NaturalCmp(str_x, str_y) = 1

\* _album has returned the generator: the walk has begun.
WalkBegun == fcount[2] # 0

\* The track number tag of the file with index i
TrackTag(i) == IntToStr(i) \o <<47>> \o IntToStr(FILES_TOTAL)

\* The items file_copy has left out because their destination was there.
Skipped ==
    LET lines == console \o SHORT_LOG
    IN  Cardinality({k \in DOMAIN lines : lines[k] = "already copied"})

DstPreexists ==
    /\ pc # "run"
    /\ ARGS.dst_dir \in DOMAIN fs0
    /\ ~ARGS.dry_run /\ ~ARGS.drop_dst /\ ~ARGS.overwrite

\* C4, as claimed: such a run ends with a status that is not zero, it
\* copies nothing and leaves the file system as it was.
C4_AbortsAlways ==
    DstPreexists =>
        /\ fs = fs0 /\ created = <<>> /\ tmp = <<>>
        /\ pc = "exit" => status = 1

\* C4, amended: such a run, unless it only counts, ends with status 1
\* before the walk begins; it copies nothing and leaves the file system as
\* it was.
C4_Aborts ==
    (DstPreexists /\ ~ARGS.count) =>
        /\ fs = fs0 /\ created = <<>> /\ tmp = <<>> /\ emitted = <<>>
        /\ pc \in {"count", "album", "exit"}
        /\ pc = "exit" => status = 1

\* The run was stopped by _album because the album directory exists.
C4_Witness ==
    /\ DstPreexists /\ ~ARGS.count
    /\ pc = "exit" /\ status = 1
    /\ console = <<"Target directory already exists">>
    /\ FILES_TOTAL >= 1

\* The computed destination directory was there before the run, and the
\* run is one that overwrites it.
Overwrites ==
    /\ pc # "run"
    /\ ARGS.dst_dir \in DOMAIN fs0
    /\ ~ARGS.dry_run /\ ~ARGS.drop_dst /\ ARGS.overwrite

\* C5: once the walk has begun in a run that overwrites, the destination
\* directory is a directory that holds nothing but what this run put
\* there: it is empty until the first item is copied, every file below it
\* was written by this run, every directory below it leads to the
\* destination of an emitted item, and no file of before is left.
C5_OverwriteFresh ==
    (Overwrites /\ WalkBegun) =>
        /\ IsDir(ARGS.dst_dir)
        /\ emitted = <<>> =>
               \A p \in DOMAIN fs : Under(p, ARGS.dst_dir) => p = ARGS.dst_dir
        /\ \A p \in DOMAIN fs :
               (Under(p, ARGS.dst_dir) /\ p # ARGS.dst_dir) =>
                   IF fs[p].kind = "file"
                   THEN \E k \in DOMAIN created : created[k].dst = p
                   ELSE \E k \in DOMAIN emitted : Under(EntryDst(emitted[k]), p)
        /\ \A p \in DOMAIN fs0 :
               (Under(p, ARGS.dst_dir) /\ fs0[p].kind = "file") =>
                   (p \notin DOMAIN fs \/ fs[p] # fs0[p])

\* An overwriting run has ended with two files in the album directory; the
\* file of the earlier run is gone.
C5_Witness ==
    /\ Overwrites /\ pc = "exit" /\ status = 0
    /\ Len(created) = 2
    /\ \E p \in DOMAIN fs0 :
           Under(p, ARGS.dst_dir) /\ fs0[p].kind = "file" /\ p \notin DOMAIN fs

\* C6: a dry run changes nothing in the file system, makes no temp file
\* and copies nothing; once its walk has begun it ends with status 0,
\* with every audio file of the source emitted and counted.
C6_DryRunWalksAll ==
    ARGS.dry_run =>
        /\ fs = fs0 /\ tmp = <<>> /\ created = <<>>
        /\ (WalkBegun /\ pc = "exit") =>
               /\ status = 0
               /\ files_total = Len(emitted)
               /\ Len(emitted) = Cardinality(SourceFiles)

\* The lines about a destination inside the source
ConflictLines == <<"Target directory", "is inside source", "It won't run.">>

\* The source is a directory and the computed destination directory is the
\* source or lies in it.
Nested ==
    /\ pc # "run"
    /\ fs0[ARGS.src].kind = "dir"
    /\ Under(ARGS.dst_dir, ARGS.src)

\* The conflict is in the short log, or on the console once the short log
\* has been shown.
ConflictLogged ==
    IF pc = "exit" /\ status = 0
    THEN \E i \in DOMAIN console : SubSeq(console, i, i + 2) = ConflictLines
    ELSE SHORT_LOG = ConflictLines

\* What a run that is not dry does about a nested destination.
NestedAbort ==
    /\ pc = "exit" /\ status = 1
    /\ FILES_TOTAL = -1
    /\ fs = fs0 /\ created = <<>> /\ emitted = <<>>

\* C7, as claimed: with a nested destination a run that is not dry ends
\* with status 1 before it counts, makes, removes or copies anything; a
\* dry run logs the conflict and ends with status 0.
C7_NestedAlways ==
    Nested =>
        IF ~ARGS.dry_run THEN NestedAbort
        ELSE /\ fs = fs0
             /\ ConflictLogged
             /\ pc = "exit" => status = 0

\* C7, amended: the same, for runs that do not only count; the dry run
\* ends with status 0 when the source holds an audio file, and with
\* status 1 when it holds none.
C7_NestedGuard ==
    (Nested /\ ~ARGS.count) =>
        IF ~ARGS.dry_run THEN NestedAbort
        ELSE /\ fs = fs0
             /\ ConflictLogged
             /\ pc = "exit" => (status = 0 <=> SourceFiles # {})

\* A dry run with the destination inside the source has walked the source
\* and ended.
C7_Witness ==
    /\ Nested /\ ~ARGS.count /\ ARGS.dry_run
    /\ pc = "exit" /\ status = 0
    /\ Len(emitted) >= 1

\* _file_decorate was called on its own.
Decorated == call.fn = "_file_decorate"

\* C13, as claimed: the name comes back unchanged whenever the strip flag
\* is set and whenever the layout is tree.
C13_BareWhenStripOrTree ==
    (Decorated /\ (ARGS.strip_decorations \/ ARGS.tree_dst)) =>
        call.result = call.file

\* C13, amended: the name comes back unchanged, for every index,
\* subdirectory path and naming option, whenever the strip flag is set and
\* the layout is tree; the strip flag alone and the tree layout alone leave
\* the name decorated (longer than the original when no unified name
\* replaces it).
C13_BareWhenStripAndTree ==
    Decorated =>
        IF ARGS.strip_decorations /\ ARGS.tree_dst
        THEN call.result = call.file
        ELSE /\ call.result[1] \in 48..57
             /\ ~Truthy(ARGS.unified_name) =>
                    /\ Len(call.result) > Len(call.file)
                    /\ SubSeq(call.result,
                              Len(call.result) - Len(call.file) + 1,
                              Len(call.result)) = call.file

\* With strip and tree set, a name came back bare though a unified name,
\* an artist and a subdirectory prefix were asked for.
C13_Witness ==
    /\ Decorated /\ ARGS.strip_decorations /\ ARGS.tree_dst
    /\ ARGS.prepend_subdir_name /\ Truthy(ARGS.unified_name)
    /\ Truthy(ARGS.artist)
    /\ call.step_down # <<>> /\ call.i = 7 /\ FILES_TOTAL = 533
    /\ call.result = call.file

RECURSIVE Pow10(_)
Pow10(n) == IF n = 0 THEN 1 ELSE 10 * Pow10(n - 1)

\* The number of decimal digits of a positive number.
Width(n) == CHOOSE w \in 1..9 : Pow10(w - 1) <= n /\ n < Pow10(w)

\* i written with exactly w digits.
Padded(i, w) == [k \in 1..w |-> 48 + ((i \div Pow10(w - k)) % 10)]

RECURSIVE Bracketed(_)
\* "[a][b]..." for the segments a, b, ...
Bracketed(segments) ==
    IF segments = <<>> THEN <<>>
    ELSE <<91>> \o Head(segments) \o <<93>> \o Bracketed(Tail(segments))

\* The name a file gets in flat layout; the strip flag is not looked at.
FlatName(i, step_down, file) ==
    Padded(i, Width(FILES_TOTAL)) \o <<45>>
    \o (IF ARGS.prepend_subdir_name /\ step_down # <<>>
        THEN Bracketed(step_down) \o <<45>> ELSE <<>>)
    \o (IF Truthy(ARGS.unified_name)
        THEN ARGS.unified_name
             \o (IF Truthy(ARGS.artist) THEN Dash \o ARGS.artist ELSE <<>>)
             \o Suffix(file)
        ELSE file)

\* C14: in flat layout the strip flag changes nothing: the name is the
\* zero-padded index, a hyphen, the bracketed subdirectories and a hyphen
\* when they are asked for and there are any, and the name; the result can
\* be the bare name (no index in front) only when strip and tree are set.
C14_FlatIgnoresStrip ==
    Decorated =>
        /\ ~ARGS.tree_dst =>
               call.result = FlatName(call.i, call.step_down, call.file)
        /\ ~(ARGS.strip_decorations /\ ARGS.tree_dst) =>
               SubSeq(call.result, 1, Width(FILES_TOTAL) + 1)
                   = Padded(call.i, Width(FILES_TOTAL)) \o <<45>>

\* Flat layout with the strip flag set: 7 of 42 in d1/d2 came out as
\* "07-[d1][d2]-a.m".
C14_Witness ==
    /\ Decorated /\ ARGS.strip_decorations /\ ~ARGS.tree_dst
    /\ ARGS.prepend_subdir_name /\ ~Truthy(ARGS.unified_name)
    /\ call.i = 7 /\ FILES_TOTAL = 42
    /\ call.step_down = <<<<100, 49>>, <<100, 50>>>>
    /\ call.result = <<48, 55, 45, 91, 100, 49, 93, 91, 100, 50, 93, 45,
                       97, 46, 109>>

BaseName ==
    IF Truthy(ARGS.unified_name)
    THEN (IF Truthy(ARGS.artist) THEN ARGS.artist \o Dash ELSE <<>>)
         \o ARGS.unified_name
    ELSE IF fs[ARGS.src].kind = "file" THEN Stem(PathName(ARGS.src))
    ELSE PathName(ARGS.src)

\* C18: the album directory is named by the album number written with two
\* digits, a hyphen and the base name, for every album number given, 0
\* included; without an album number it is the base name alone.
C18_AlbumNumPrefix ==
    (call.fn = "_dst_calculate" /\ ~ARGS.drop_dst) =>
        call.result = (IF ARGS.album_num = -1 THEN <<>>
                       ELSE Padded(ARGS.album_num, 2) \o <<45>>)
                      \o BaseName

\* The directory a written file lies in, relative to the destination
\* directory, and the directory its source lies in, relative to the
\* source.
DstChain(dst) == SubSeq(dst, Len(ARGS.dst_dir) + 1, Len(dst) - 1)
SrcChain(dst) ==
    SubSeq(fs[dst].origin, Len(ARGS.src) + 1, Len(fs[dst].origin) - 1)

\* C16: in tree layout each destination subdirectory is named by three
\* digits, a hyphen and the name of the source directory, or by the bare
\* name with the strip flag; in flat layout no directory name is decorated.
C16_NumberedDirs ==
    ARGS.tree_dst =>
        \A k \in DOMAIN created :
            LET to == DstChain(created[k].dst)
                from == SrcChain(created[k].dst)
            IN  /\ Len(to) = Len(from)
                /\ \A n \in DOMAIN to :
                       IF ARGS.strip_decorations THEN to[n] = from[n]
                       ELSE /\ Len(to[n]) = Len(from[n]) + 4
                            /\ \A j \in 1..3 : to[n][j] \in 48..57
                            /\ to[n][4] = 45
                            /\ SubSeq(to[n], 5, Len(to[n])) = from[n]

\* C17: in flat layout every file is written into the destination
\* directory itself and the run makes no directory below it; in tree
\* layout every file is written into the directory whose path below the
\* destination directory is the path of its source directory below the
\* source, so no segment of a sibling directory is in it.
C17_Layout ==
    /\ \A k \in DOMAIN created :
           LET dst == created[k].dst
           IN  /\ IsFile(dst)
               /\ IsRelativeTo(fs[dst].origin, ARGS.src)
               /\ IsRelativeTo(dst, ARGS.dst_dir)
               /\ DstChain(dst) = IF ARGS.tree_dst THEN SrcChain(dst) ELSE <<>>
               /\ IsDir(PathParent(dst))
    /\ ~ARGS.tree_dst =>
           \A p \in DOMAIN fs :
               (fs[p].kind = "dir" /\ Under(p, ARGS.dst_dir) /\ p # ARGS.dst_dir)
                   => p \in DOMAIN fs0

\* A tree run has ended with files written into d1, into its sibling d2
\* and into d1/d2.
C17_Witness ==
    /\ ARGS.tree_dst /\ pc = "exit" /\ status = 0
    /\ {DstChain(created[k].dst) : k \in DOMAIN created}
           = {<<<<100, 49>>>>, <<<<100, 50>>>>, <<<<100, 49>>, <<100, 50>>>>}

\* The summary line has been shown.
SummaryShown == \E k \in DOMAIN console : console[k] = "Done"

\* C20, as claimed: the number of files the summary reports is the number
\* of files the run wrote to the destination.
C20_ReportedEqualsWritten ==
    SummaryShown => files_total = Len(created)

\* C20, amended: the number the summary reports is the number of items
\* the walk emitted; a dry run wrote none of them, any other run wrote
\* all but those it found already at the destination.
C20_ReportedEqualsWalked ==
    SummaryShown =>
        /\ files_total = Len(emitted)
        /\ Len(created) = IF ARGS.dry_run THEN 0 ELSE files_total - Skipped
        /\ ARGS.dry_run => Skipped = 0
        /\ (~ARGS.drop_dst /\ ~ARGS.dry_run) => Skipped = 0

\* A run into a dropped destination directory found one of its two files
\* there, wrote the other and reported two.
C20_Witness ==
    /\ SummaryShown /\ ARGS.drop_dst /\ ~ARGS.dry_run
    /\ pc = "exit" /\ status = 0
    /\ files_total = 2 /\ Len(created) = 1 /\ Skipped = 1

\* The title set_tags is to write for the index i and the source stem.
ClaimedTitle(i, stem) ==
    LET index == Padded(i, Width(i))
    IN  IF ARGS.file_title_num THEN index \o <<62>> \o stem
        ELSE IF ARGS.file_title THEN stem
        ELSE IF Truthy(ARGS.artist) /\ Truthy(ARGS.album)
        THEN index \o <<32>> \o initials(ARGS.artist) \o Dash \o ARGS.album
        ELSE IF Truthy(ARGS.artist) THEN index \o <<32>> \o ARGS.artist
        ELSE IF Truthy(ARGS.album) THEN index \o <<32>> \o ARGS.album
        ELSE None

\* C19: the title written for the file with index i is i, ">" and the
\* source stem with file_title_num (which goes before file_title), the
\* source stem with file_title, and otherwise i, a space and the initials
\* of the artist, " - " and the album, or the artist alone, or the album
\* alone; with a file title mode set every file gets that title.
C19_TitleTag ==
    (call.fn = "set_tags" /\ call.audio) =>
        call.result.title = ClaimedTitle(call.i, Stem(call.file))

\* The characters that are a delimiter of initials, and the white space
IsDelimiter(ch) == IsSpace(ch) \/ ch \in {46, 45, 44}

\* An author has a name part when some character of it is no delimiter.
HasNamePart(author) == \E k \in DOMAIN author : ~IsDelimiter(author[k])

\* The pieces of a text between the occurrences of a character
Fields(s, ch) ==
    LET cuts == {k \in DOMAIN s : s[k] = ch} \cup {0, Len(s) + 1}
    IN  {SubSeq(s, i + 1, j - 1) :
            <<i, j>> \in {c \in cuts \X cuts :
                             /\ c[1] < c[2]
                             /\ \A k \in cuts : ~(c[1] < k /\ k < c[2])}}

\* How many pieces of a text between the occurrences of a character satisfy
\* a condition
CountFields(s, ch, Cond(_)) ==
    LET cuts == {k \in DOMAIN s : s[k] = ch} \cup {0, Len(s) + 1}
    IN  Cardinality({c \in cuts \X cuts :
                        /\ c[1] < c[2]
                        /\ \A k \in cuts : ~(c[1] < k /\ k < c[2])
                        /\ Cond(SubSeq(s, c[1] + 1, c[2] - 1))})

\* A group: barrels joined by hyphens and one trailing dot, each barrel
\* initials joined by dots, nothing of it empty
WellFormedGroup(g) ==
    /\ g # <<>>
    /\ g[Len(g)] = 46
    /\ \A barrel \in Fields(SubSeq(g, 1, Len(g) - 1), 45) :
           /\ barrel # <<>>
           /\ \A initial \in Fields(barrel, 46) : initial # <<>>

\* C21: initials of a text made of white space, dots, hyphens and commas
\* only is empty; every result is groups joined by commas, each group
\* well formed (no empty group, no empty barrel, no empty initial, one
\* trailing dot), and there is one group for every author, between the
\* commas of a text without quotes, that has a name part.
C21_Initials ==
    call.fn = "initials" =>
        /\ (~HasNamePart(call.file) => call.result = <<>>)
        /\ call.result # <<>> =>
               \A g \in Fields(call.result, 44) : WellFormedGroup(g)
        /\ (\A k \in DOMAIN call.file : call.file[k] # 34) =>
               (IF call.result = <<>> THEN 0
                ELSE CountFields(call.result, 44, LAMBDA g : TRUE))
               = CountFields(call.file, 44, HasNamePart)

\* Misplaced delimiters around two authors, the first of two barrels:
\* "-a-a," gives "A-A."; and a text of delimiters only
C21_Witness ==
    /\ call.fn = "initials"
    /\ \/ call.file = <<45, 97, 45, 97, 44>> /\ call.result = <<65, 45, 65, 46>>
       \/ call.file = <<44, 97, 46, 44, 97>> /\ call.result = <<65, 46, 44, 65, 46>>

\* The quotes of a text paired from the left, the first with the second, the
\* third with the fourth: every pair and the text inside it become one
\* space, and so does a quote left without a partner.
RECURSIVE Unquoted(_)
Unquoted(s) ==
    IF \A k \in DOMAIN s : s[k] # 34 THEN s
    ELSE LET i == CHOOSE k \in DOMAIN s :
                      s[k] = 34 /\ \A j \in 1..(k - 1) : s[j] # 34
             rest == SubSeq(s, i + 1, Len(s))
         IN  IF \A k \in DOMAIN rest : rest[k] # 34
             THEN SubSeq(s, 1, i - 1) \o <<32>> \o rest
             ELSE LET j == CHOOSE k \in DOMAIN rest :
                               rest[k] = 34 /\ \A l \in 1..(k - 1) : rest[l] # 34
                  IN  SubSeq(s, 1, i - 1) \o <<32>>
                      \o Unquoted(SubSeq(rest, j + 1, Len(rest)))

HasBackslash(s) == \E k \in DOMAIN s : s[k] = 92

\* C22, as claimed: the text inside a pair of double quotes contributes
\* nothing to the initials, whatever it holds, and the text after a quote
\* without a partner contributes its initials: the result is the initials
\* of the text with its pairs of quotes cut out.
C22_QuotedIgnored ==
    call.fn = "initials" => call.result = initials(Unquoted(call.file))

\* C22, amended: so it is for a text without backslashes.
C22_QuotedIgnoredPlain ==
    (call.fn = "initials" /\ ~HasBackslash(call.file)) =>
        call.result = initials(Unquoted(call.file))

\* A nickname holding a comma is cut out, "a",a"" gives "A."; and the text
\* after a quote without a partner counts, "a "a" gives "A.A."
C22_Witness ==
    /\ call.fn = "initials"
    /\ \/ call.file = <<97, 34, 44, 97, 34>> /\ call.result = <<65, 46>>
       \/ call.file = <<97, 32, 34, 97>> /\ call.result = <<65, 46, 65, 46>>

\* The length of the longest common prefix of two subdirectory chains
CommonLen(c, d) ==
    CHOOSE k \in 0..Len(c) :
        /\ k <= Len(d)
        /\ SubSeq(c, 1, k) = SubSeq(d, 1, k)
        /\ (k < Len(c) /\ k < Len(d)) => c[k + 1] # d[k + 1]

\* x comes no later than y in the order the walk sorts by: ascending when
\* forward, descending when reverse
InOrder(c) == IF ARGS.reverse THEN c >= 0 ELSE c <= 0

\* A list is in order when no element comes before its predecessor.
FilesInOrder(a) ==
    \A k \in 1..(Len(a) - 1) : InOrder(_file_compare(a[k], a[k + 1]))
DirsInOrder(a) ==
    \A k \in 1..(Len(a) - 1) : InOrder(_path_compare(a[k], a[k + 1]))

\* Of two items, the earlier and the later: when one lies in a directory
\* and the other below a subdirectory of it, they are in the order of the
\* two passes.
WalkPassOrder(x, y) ==
    LET k == CommonLen(x[2], y[2])
    IN  IF x[2] = y[2] THEN TRUE
        ELSE IF k = Len(x[2]) THEN ARGS.reverse
        ELSE IF k = Len(y[2]) THEN ~ARGS.reverse
        ELSE TRUE

\* Of two items emitted one after the other: files of one directory are in
\* comparator order, files below two subdirectories of one directory are
\* in the comparator order of the subdirectories.
WalkStepInOrder(x, y) ==
    LET k == CommonLen(x[2], y[2])
    IN  IF x[2] = y[2] THEN InOrder(_file_compare(x[3], y[3]))
        ELSE (k < Len(x[2]) /\ k < Len(y[2])) =>
                 InOrder(_path_compare(x[2][k + 1], y[2][k + 1]))

\* The files below one subdirectory are emitted without a break.
WalkContiguous ==
    \A p, q \in DOMAIN emitted : \A r \in (p + 1)..(q - 1) :
        LET k == CommonLen(emitted[p][2], emitted[q][2])
        IN  SubSeq(emitted[r][2], 1, k) = SubSeq(emitted[p][2], 1, k)

C24_CountEqualsWalk ==
    /\ SummaryShown => Len(emitted) = FILES_TOTAL
    /\ \A k \in DOMAIN console : console[k] # "Fatal error"

\* A file carries all the tags of the walk item i under the options: the
\* track number unless it is dropped, and the artist and a title when an
\* artist is set.
FullyTagged(node, i) ==
    /\ ~ARGS.drop_tracknumber => node.tags.tracknumber = TrackTag(i)
    /\ Truthy(ARGS.artist) =>
           node.tags.artist = ARGS.artist /\ node.tags.title # None

\* C25: a file is copied to a temporary file, the temporary file is tagged
\* and then copied to the destination, and is removed; so the destination
\* file is absent until the tagged copy is written, every file the run has
\* written to the destination is fully tagged, and the source files are as
\* they were.
C25_TaggedViaTmp ==
    /\ \A p \in DOMAIN fs0 :
           IsRelativeTo(p, ARGS.src) => (p \in DOMAIN fs /\ fs[p] = fs0[p])
    /\ pc \in {"copy_tmp", "set_tags", "copy_dst"} =>
           tmp # <<>> /\ ~Exists(EntryDst(entry))
    /\ pc = "set_tags" => tmp[1] = fs[EntrySrc(entry)]
    /\ pc = "copy_dst" => FullyTagged(tmp[1], entry[1])
    /\ pc = "rm_tmp" => tmp # <<>> /\ fs[EntryDst(entry)] = tmp[1]
    /\ pc \in {"walk", "file_copy", "summary", "epilogue", "exit"} => tmp = <<>>
    /\ \A k \in DOMAIN created :
           /\ IsFile(created[k].dst)
           /\ FullyTagged(fs[created[k].dst], created[k].index)

\* copy_and_set_via_tmp is running
InCopyViaTmp == pc \in {"copy_tmp", "set_tags", "copy_dst", "rm_tmp"}

\* C26: outside copy_and_set_via_tmp, however it was left, there is no
\* temporary file.
C26_NoStrayTmp == ~InCopyViaTmp => tmp = <<>>

\* The run was interrupted.
Aborted == \E k \in DOMAIN console : console[k] = "Aborted manually"

\* C27: a run that was interrupted has ended with status 1, every item the
\* walk has emitted is completely processed (in a run that is not dry:
\* written to the destination, fully tagged), the files written before are
\* at the destination and nothing partly processed is left, neither a
\* temporary file nor a file at the destination.
C27_InterruptAfterFile ==
    Aborted =>
        /\ pc = "exit" /\ status = 1
        /\ tmp = <<>>
        /\ files_total = Len(emitted)
        /\ ~ARGS.dry_run => Len(created) + Skipped = Len(emitted)
        /\ \A k \in DOMAIN created :
               /\ IsFile(created[k].dst)
               /\ FullyTagged(fs[created[k].dst], created[k].index)
        /\ \A p \in DOMAIN fs :
               (IsFile(p) /\ p \notin DOMAIN fs0) =>
                   \E k \in DOMAIN created : created[k].dst = p

\* The source is one audio file.
SingleFile == ARGS.src \in DOMAIN fs0 /\ fs0[ARGS.src].kind = "file"

\* C28: for a source that is one audio file the count is 1, the walk emits
\* one item, with the index 1, no subdirectories and the name of the file,
\* and the source path made of the item is the path of the file; a run that
\* writes ends well, with a copy of that file as its only file.
C28_SingleFile ==
    (SingleFile /\ ~ARGS.count) =>
        /\ FILES_TOTAL \in {-1, 1}
        /\ Len(emitted) <= 1
        /\ \A k \in DOMAIN emitted :
               /\ emitted[k] = <<1, <<>>, PathName(ARGS.src)>>
               /\ EntrySrc(emitted[k]) = ARGS.src
        /\ (pc = "exit" /\ emitted # <<>>) =>
               /\ status = 0
               /\ ~ARGS.dry_run =>
                      /\ Len(created) + Skipped = 1
                      /\ \A k \in DOMAIN created :
                             fs[created[k].dst].origin = ARGS.src

\* C29: two runs over the same source under the same options and in the
\* same direction, whatever the orders in which the directories were
\* listed to each, walk the same items in the same order.
C29_ListingIndependent ==
    (prev.n = 1 /\ prev.reverse = ARGS.reverse /\ pc = "exit" /\ status = 0) =>
        emitted = prev.emitted

\* C30: no two items of a walk get the same destination path, so no two
\* files the run writes have the same path, every item of a run that ended
\* well has its own file at the destination, and a run that made its
\* destination directory skips no file as already copied.
C30_DistinctDst ==
    /\ \A p, q \in DOMAIN emitted :
           p # q => EntryDst(emitted[p]) # EntryDst(emitted[q])
    /\ \A j, k \in DOMAIN created : j # k => created[j].dst # created[k].dst
    /\ MakesDst => Skipped = 0
    /\ (MakesDst /\ pc = "exit" /\ status = 0) =>
           /\ Len(created) = Len(emitted)
           /\ Cardinality({p \in DOMAIN fs : IsFile(p) /\ p \notin DOMAIN fs0})
                  = Len(emitted)

\* A flat run with the strip option has written "1.m" of d1 and "1.m" of
\* d2 under two names.
C30_Witness ==
    /\ ~ARGS.tree_dst /\ ARGS.strip_decorations
    /\ pc = "exit" /\ status = 0
    /\ Len(created) = 2
    /\ emitted[1][3] = emitted[2][3]
    /\ emitted[1][2] # emitted[2][2]

====
